---- MODULE Spec2Model ----
(***************************************************************************)
(* Model of fenv.py (pyfenv): a ctypes binding of the C99 <fenv.h>         *)
(* exception-flag and rounding-direction functions of libm.so.6.           *)
(*                                                                         *)
(* The floating-point environment is ambient native state.  It is modelled *)
(* by two variables: fpsw, the six sticky exception bits of the FPU status *)
(* word (bit positions as in class FE), and fpcw, the rounding-control     *)
(* field of the FPU control word (values as in class FE).  The processor   *)
(* sets the sticky bits during arithmetic, the DENORM bit on a subnormal   *)
(* operand, and the module does not reset the environment when it is       *)
(* imported, so Init draws both variables from every value the environment *)
(* can hold.                                                               *)
(*                                                                         *)
(* The libm functions are modelled as the x86 GNU libm, the platform the   *)
(* module is written for, implements them: the exception functions act on  *)
(* excepts & FE.ALL_EXCEPT only and return 0, and fesetround rejects, with *)
(* a nonzero status, an argument with a bit outside the rounding-control   *)
(* field.                                                                  *)
(*                                                                         *)
(* Spec is every caller of the module; SpecFlags is a caller of the        *)
(* ExceptFlag operations alone, SpecRound a caller of the ROUND operations *)
(* alone, and SpecCodec applies the EXCEPT conversions to drawn inputs.    *)
(***************************************************************************)
EXTENDS Integers, Sequences, FiniteSets

VARIABLES fpsw, fpcw, saved, query, last, conv

vars == <<fpsw, fpcw, saved, query, last, conv>>

-----------------------------------------------------------------------------
(* Bounds of the model.                                                    *)

\* native masks given to the codec have MaskBits bits
MaskBits == 8
\* the codec specification applies at most MaxSteps conversions to an input
MaxSteps == 2

-----------------------------------------------------------------------------
(* Integer bit operations (Python int / C int on non-negative values).     *)

RECURSIVE BitAnd(_, _)
BitAnd(a, b) ==
    IF a = 0 \/ b = 0 THEN 0
    ELSE (a % 2) * (b % 2) + 2 * BitAnd(a \div 2, b \div 2)

RECURSIVE BitOr(_, _)
BitOr(a, b) ==
    IF a = 0 THEN b
    ELSE IF b = 0 THEN a
    ELSE (IF a % 2 = 1 \/ b % 2 = 1 THEN 1 ELSE 0) + 2 * BitOr(a \div 2, b \div 2)

\* a & ~b
RECURSIVE BitAndNot(_, _)
BitAndNot(a, b) ==
    IF a = 0 THEN 0
    ELSE (a % 2) * (1 - (b % 2)) + 2 * BitAndNot(a \div 2, b \div 2)

\* 1 << n
Shl1(n) == 2 ^ n

-----------------------------------------------------------------------------
(* class FE                                                                *)

FE_INVALID == 1
FE_DENORM == 2
FE_DIVBYZERO == 4
FE_OVERFLOW == 8
FE_UNDERFLOW == 16
FE_INEXACT == 32
FE_ALL_EXCEPT ==
    BitOr(FE_INEXACT, BitOr(FE_DIVBYZERO, BitOr(FE_UNDERFLOW, BitOr(FE_OVERFLOW, FE_INVALID))))

FE_TONEAREST == 0
FE_DOWNWARD == 1024
FE_UPWARD == 2048
FE_TOWARDZERO == 3072

\* fexcept_t = ct.c_ushort: a value stored in it is truncated to 16 bits
fexcept_t(v) == v % (2 ^ 16)

-----------------------------------------------------------------------------
(* class EXCEPT                                                            *)

\* __members__ in definition order
EXCEPT_members == <<"INVALID", "DENORM", "DIVBYZERO", "OVERFLOW", "UNDERFLOW", "INEXACT">>

\* values are bit numbers
EXCEPT_value ==
    [e \in {"INVALID", "DENORM", "DIVBYZERO", "OVERFLOW", "UNDERFLOW", "INEXACT"} |->
        CASE e = "INVALID" -> 0
          [] e = "DENORM" -> 1
          [] e = "DIVBYZERO" -> 2
          [] e = "OVERFLOW" -> 3
          [] e = "UNDERFLOW" -> 4
          [] e = "INEXACT" -> 5]

EXCEPT_ALL == {EXCEPT_members[i] : i \in 1..Len(EXCEPT_members)}

\* a slip in the bit test: the bit number is used where the bit is meant
from_mask_bitnumber(mask) ==
    {e \in EXCEPT_ALL : BitAnd(EXCEPT_value[e], mask) # 0}

\* the loop adds a member to the result when its bit is set in the mask
from_mask(mask) ==
    {e \in EXCEPT_ALL : BitAnd(Shl1(EXCEPT_value[e]), mask) # 0}

\* the loop of to_mask over members i..end, result accumulated in an integer
RECURSIVE to_mask_loop(_, _, _)
to_mask_loop(flags, i, result) ==
    IF i > Len(EXCEPT_members) THEN result
    ELSE to_mask_loop(flags, i + 1,
             IF EXCEPT_members[i] \in flags
             THEN BitOr(result, Shl1(EXCEPT_value[EXCEPT_members[i]]))
             ELSE result)

\* a slip in the accumulation: = where |= is meant, the last member wins
RECURSIVE to_mask_assign_loop(_, _, _)
to_mask_assign_loop(flags, i, result) ==
    IF i > Len(EXCEPT_members) THEN result
    ELSE to_mask_assign_loop(flags, i + 1,
             IF EXCEPT_members[i] \in flags
             THEN Shl1(EXCEPT_value[EXCEPT_members[i]])
             ELSE result)

to_mask_assign(flags) == to_mask_assign_loop(flags, 1, 0)

to_mask(flags) == to_mask_loop(flags, 1, 0)

-----------------------------------------------------------------------------
(* class ROUND                                                             *)

ROUND == {"TONEAREST", "DOWNWARD", "UPWARD", "TOWARDZERO"}

ROUND_value ==
    [r \in ROUND |->
        CASE r = "TONEAREST" -> 0
          [] r = "DOWNWARD" -> 1
          [] r = "UPWARD" -> 2
          [] r = "TOWARDZERO" -> 3]

\* ROUND(v): the member whose value is v, ValueError when there is none
ROUND_call(v) ==
    IF \E r \in ROUND : ROUND_value[r] = v
    THEN [outcome |-> "ok", ret |-> CHOOSE r \in ROUND : ROUND_value[r] = v]
    ELSE [outcome |-> "ValueError", ret |-> "None"]

-----------------------------------------------------------------------------
(* The libm functions the module declares, on the environment (sw, cw).    *)

feclearexcept(sw, excepts) ==
    [fpsw |-> BitAndNot(sw, BitAnd(excepts, FE_ALL_EXCEPT)), status |-> 0]

fegetexceptflag(sw, excepts) ==
    [flag |-> fexcept_t(BitAnd(BitAnd(sw, excepts), FE_ALL_EXCEPT)), status |-> 0]

feraiseexcept(sw, excepts) ==
    [fpsw |-> BitOr(sw, BitAnd(excepts, FE_ALL_EXCEPT)), status |-> 0]

fesetexceptflag(sw, flag, excepts) ==
    LET ex == BitAnd(excepts, FE_ALL_EXCEPT)
    IN  [fpsw |-> BitOr(BitAndNot(sw, ex), BitAnd(flag, ex)), status |-> 0]

fetestexcept(sw, excepts) == BitAnd(BitAnd(sw, excepts), FE_ALL_EXCEPT)

fegetround(cw) == BitAnd(cw, FE_TOWARDZERO)

fesetround(cw, round) ==
    IF BitAndNot(round, FE_TOWARDZERO) # 0
    THEN [fpcw |-> cw, status |-> 1]
    ELSE [fpcw |-> round, status |-> 0]

-----------------------------------------------------------------------------
(* State.                                                                  *)

NativeFlags == 0 .. (2 ^ Len(EXCEPT_members) - 1)

NativeRoundingModes == {FE_TONEAREST, FE_DOWNWARD, FE_UPWARD, FE_TOWARDZERO}

\* the kinds whose bit is set in the status word sw
Signaled(sw) == {e \in EXCEPT_ALL : (sw \div Shl1(EXCEPT_value[e])) % 2 = 1}

\* the exception sets the operations are called with: no kind, one kind,
\* every kind
ArgSets == {{}} \cup {{e} : e \in EXCEPT_ALL} \cup {EXCEPT_ALL}

\* a call and its end: the operation, its argument (excepts for the ExceptFlag
\* operations, self for ROUND.set), what it returned (result for a set of
\* kinds, round for a ROUND member), the status of the native call, and
\* whether it returned ("ok") or raised
NoCall == [op |-> "none", excepts |-> {}, self |-> "None", result |-> {},
           round |-> "None", status |-> 0, outcome |-> "ok"]

NoSnapshot == [made |-> FALSE, _flags |-> {}]

NoQuery == [excepts |-> {}, signaled |-> {}]

NoConv == [kind |-> "none", orig |-> 0, val |-> 0, steps |-> <<>>]

InitEnv ==
    /\ fpsw \in NativeFlags
    /\ fpcw \in NativeRoundingModes
    /\ saved = NoSnapshot
    /\ query = NoQuery
    /\ last = NoCall

Init ==
    /\ InitEnv
    /\ conv = NoConv

-----------------------------------------------------------------------------
(* class ExceptFlag.  Each action is one call; last records the call, the  *)
(* status the native function returned and how the call ended.             *)

ExceptFlag_clear(excepts) ==
    LET r == feclearexcept(fpsw, to_mask(excepts))
    IN  /\ fpsw' = r.fpsw
        /\ last' = [NoCall EXCEPT !.op = "clear", !.excepts = excepts,
                                  !.status = r.status]
        /\ UNCHANGED <<fpcw, saved, query, conv>>

ExceptFlag_getflag(excepts) ==
    LET r == fegetexceptflag(fpsw, to_mask(excepts))
        c_result == r.flag
    IN  /\ saved' = [made |-> TRUE, _flags |-> from_mask(c_result)]
        /\ query' = [excepts |-> excepts, signaled |-> excepts \cap Signaled(fpsw)]
        /\ last' = [NoCall EXCEPT !.op = "getflag", !.excepts = excepts,
                                  !.result = from_mask(c_result),
                                  !.status = r.status]
        /\ UNCHANGED <<fpsw, fpcw, conv>>

ExceptFlag_raise(excepts) ==
    LET r == feraiseexcept(fpsw, to_mask(excepts))
    IN  /\ fpsw' = r.fpsw
        /\ last' = [NoCall EXCEPT !.op = "raise", !.excepts = excepts,
                                  !.status = r.status]
        /\ UNCHANGED <<fpcw, saved, query, conv>>

ExceptFlag_setflag(excepts) ==
    /\ saved.made
    /\ LET c_flags == fexcept_t(to_mask(saved._flags))
           r == fesetexceptflag(fpsw, c_flags, to_mask(excepts))
       IN  /\ fpsw' = r.fpsw
           /\ last' = [NoCall EXCEPT !.op = "setflag", !.excepts = excepts,
                                     !.status = r.status]
    /\ UNCHANGED <<fpcw, saved, query, conv>>

ExceptFlag_test(excepts) ==
    /\ last' = [NoCall EXCEPT
                    !.op = "test", !.excepts = excepts,
                    !.result = from_mask(fetestexcept(fpsw, to_mask(excepts)))]
    /\ UNCHANGED <<fpsw, fpcw, saved, query, conv>>

ROUND_get ==
    LET r == ROUND_call(fegetround(fpcw))
    IN  /\ last' = [NoCall EXCEPT !.op = "get", !.round = r.ret,
                                  !.outcome = r.outcome]
        /\ UNCHANGED <<fpsw, fpcw, saved, query, conv>>

ROUND_set(self) ==
    LET r == fesetround(fpcw, ROUND_value[self])
    IN  /\ fpcw' = r.fpcw
        /\ last' = [NoCall EXCEPT !.op = "set", !.self = self,
                                  !.status = r.status]
        /\ UNCHANGED <<fpsw, saved, query, conv>>

Next ==
    \/ \E excepts \in ArgSets : ExceptFlag_clear(excepts)
    \/ \E excepts \in ArgSets : ExceptFlag_getflag(excepts)
    \/ \E excepts \in ArgSets : ExceptFlag_raise(excepts)
    \/ \E excepts \in ArgSets : ExceptFlag_setflag(excepts)
    \/ \E excepts \in ArgSets : ExceptFlag_test(excepts)
    \/ ROUND_get
    \/ \E self \in ROUND : ROUND_set(self)

Spec == Init /\ [][Next]_vars

\* a caller of the ExceptFlag operations alone, started with the rounding
\* mode the runtime establishes
InitFlags ==
    /\ fpsw \in NativeFlags
    /\ fpcw = FE_TONEAREST
    /\ saved = NoSnapshot
    /\ query = NoQuery
    /\ last = NoCall
    /\ conv = NoConv

NextFlags ==
    \/ \E excepts \in ArgSets : ExceptFlag_clear(excepts)
    \/ \E excepts \in ArgSets : ExceptFlag_getflag(excepts)
    \/ \E excepts \in ArgSets : ExceptFlag_raise(excepts)
    \/ \E excepts \in ArgSets : ExceptFlag_setflag(excepts)
    \/ \E excepts \in ArgSets : ExceptFlag_test(excepts)

SpecFlags == InitFlags /\ [][NextFlags]_vars

\* a caller of the ROUND operations alone
NextRound ==
    \/ ROUND_get
    \/ \E self \in ROUND : ROUND_set(self)

SpecRound == Init /\ [][NextRound]_vars

-----------------------------------------------------------------------------
(* The codec alone: an exception set or a native mask is drawn, and        *)
(* to_mask and from_mask are applied to it in turn.                        *)

NativeMasks == 0 .. (2 ^ MaskBits - 1)

InitCodec ==
    /\ fpsw = 0
    /\ fpcw = FE_TONEAREST
    /\ saved = NoSnapshot
    /\ query = NoQuery
    /\ last = NoCall
    /\ \/ \E S \in SUBSET EXCEPT_ALL :
            conv = [kind |-> "set", orig |-> S, val |-> S, steps |-> <<>>]
       \/ \E M \in NativeMasks :
            conv = [kind |-> "mask", orig |-> M, val |-> M, steps |-> <<>>]

IsSetNow == \/ conv.kind = "set" /\ Len(conv.steps) % 2 = 0
            \/ conv.kind = "mask" /\ Len(conv.steps) % 2 = 1

Apply_to_mask ==
    /\ Len(conv.steps) < MaxSteps
    /\ IsSetNow
    /\ conv' = [conv EXCEPT !.val = to_mask(conv.val),
                            !.steps = Append(conv.steps, "to_mask")]
    /\ UNCHANGED <<fpsw, fpcw, saved, query, last>>

Apply_from_mask ==
    /\ Len(conv.steps) < MaxSteps
    /\ ~IsSetNow
    /\ conv' = [conv EXCEPT !.val = from_mask(conv.val),
                            !.steps = Append(conv.steps, "from_mask")]
    /\ UNCHANGED <<fpsw, fpcw, saved, query, last>>

NextCodec == Apply_to_mask \/ Apply_from_mask

SpecCodec == InitCodec /\ [][NextCodec]_vars

-----------------------------------------------------------------------------
(* Properties of the codec, under SpecCodec.                               *)

\* OR of the bits of all six kinds
valid_bits_mask ==
    BitOr(FE_INVALID, BitOr(FE_DENORM, BitOr(FE_DIVBYZERO,
        BitOr(FE_OVERFLOW, BitOr(FE_UNDERFLOW, FE_INEXACT)))))

\* C2: for every subset S of the six kinds, from_mask(to_mask(S)) = S, and
\* the empty set encodes to 0.
C2_DecodeEncode ==
    /\ (conv.kind = "set" /\ conv.steps = <<"to_mask", "from_mask">>)
          => conv.val = conv.orig
    /\ (conv.kind = "set" /\ conv.steps = <<"to_mask">> /\ conv.orig = {})
          => conv.val = 0

C2_Witness ==
    /\ conv.kind = "set"
    /\ conv.orig = {"DENORM", "OVERFLOW", "INEXACT"}
    /\ conv.steps = <<"to_mask", "from_mask">>

\* C3: for every native mask M, bits outside the six positions included,
\* to_mask(from_mask(M)) = M & valid_bits_mask, and from_mask(M) is a set
\* of kinds whatever M is.
C3_EncodeDecode ==
    /\ (conv.kind = "mask" /\ conv.steps = <<"from_mask">>)
          => conv.val \in SUBSET EXCEPT_ALL
    /\ (conv.kind = "mask" /\ conv.steps = <<"from_mask", "to_mask">>)
          => conv.val = BitAnd(conv.orig, valid_bits_mask)

C3_Witness ==
    /\ conv.kind = "mask"
    /\ conv.orig = 2 ^ MaskBits - 1 - FE_OVERFLOW
    /\ conv.steps = <<"from_mask", "to_mask">>
    /\ conv.val # conv.orig

-----------------------------------------------------------------------------
(* Properties of the ROUND operations, under SpecRound.                    *)

\* the native rounding mode of each ROUND member
FE_of ==
    [r \in ROUND |->
        CASE r = "TONEAREST" -> FE_TONEAREST
          [] r = "DOWNWARD" -> FE_DOWNWARD
          [] r = "UPWARD" -> FE_UPWARD
          [] r = "TOWARDZERO" -> FE_TOWARDZERO]

\* C1: for each of the four rounding modes M, ROUND.set on M followed
\* immediately by ROUND.get returns M.
C1_SetThenGet ==
    [][(last.op = "set" /\ last'.op = "get")
          => (last'.outcome = "ok" /\ last'.round = last.self)]_vars

\* C6: an operation that wraps a native call returning a status never
\* returns normally when the native call returned a nonzero status.
C6_StatusSurfaced ==
    (last.op \in {"clear", "getflag", "raise", "setflag", "set"} /\ last.status # 0)
        => last.outcome # "ok"

\* C9: whenever the native environment holds one of the four defined
\* rounding modes, ROUND.get returns the corresponding ROUND member without
\* error.
C9_GetDefinedMode ==
    (last.op = "get" /\ fpcw \in NativeRoundingModes)
        => (last.outcome = "ok" /\ FE_of[last.round] = fpcw)

-----------------------------------------------------------------------------
(* Properties of the ExceptFlag operations, under SpecFlags.               *)

\* C4: for every kind E, ExceptFlag.raise({E}) followed by
\* ExceptFlag.test({E}) returns exactly {E}.
C4_RaiseThenTest ==
    [][(/\ last.op = "raise"
        /\ Cardinality(last.excepts) = 1
        /\ last'.op = "test"
        /\ last'.excepts = last.excepts)
          => last'.result = last.excepts]_vars

\* C5: after a snapshot taken with getflag(all kinds) is restored with
\* setflag(all kinds), whatever was cleared and raised in between,
\* test(all kinds) returns exactly the set of flags that was signaled when
\* the snapshot was taken.
C5_SnapshotRoundTrip ==
    [][(/\ last.op = "setflag"
        /\ last.excepts = EXCEPT_ALL
        /\ query.excepts = EXCEPT_ALL
        /\ last'.op = "test"
        /\ last'.excepts = EXCEPT_ALL)
          => last'.result = query.signaled]_vars

\* C7: ExceptFlag.clear(S) resets every flag in S to unsignaled and leaves
\* every flag outside S as it was.
C7_ClearFrame ==
    [][last'.op = "clear" => Signaled(fpsw') = Signaled(fpsw) \ last'.excepts]_vars

\* C8: for a snapshot with captured set F, setflag(S) sets each flag in
\* S \cap F to signaled, each flag in S \ F to unsignaled, and leaves every
\* flag outside S unchanged.
C8_SetflagFrame ==
    [][last'.op = "setflag"
          => Signaled(fpsw') =
                (Signaled(fpsw) \ last'.excepts) \cup (last'.excepts \cap saved._flags)]_vars

\* C10: test(S) returns exactly the kinds of S that are signaled,
\* getflag(S) returns a snapshot that captures exactly that set, and neither
\* changes the exception flags or the rounding mode.
C10_QueryExact ==
    [][/\ last'.op = "test"
           => /\ last'.result = last'.excepts \cap Signaled(fpsw)
              /\ UNCHANGED <<fpsw, fpcw>>
       /\ last'.op = "getflag"
           => /\ saved'._flags = last'.excepts \cap Signaled(fpsw)
              /\ UNCHANGED <<fpsw, fpcw>>]_vars

====
